---- MODULE Spec2Model ----
(***************************************************************************)
(* Near-Earth objects: the two loaders of extract.py (load_neos,           *)
(* load_approaches) and the entity model of models.py (NearEarthObject,    *)
(* CloseApproach), as a state machine.                                     *)
(*                                                                         *)
(* Python values are encoded as follows.                                   *)
(*   str            a TLA+ string                                          *)
(*   None / a value <<>> / <<v>>  (an optional: None is the empty tuple)   *)
(*   float          <<"fin", n>>  the finite float n/100                   *)
(*                  <<"nan", 0>>  not-a-number                             *)
(*                  <<"inf", s>>  the infinity of sign s                   *)
(*   a raised exception, where a value was expected: <<"ValueError", 0>>   *)
(*   a list object  a reference (an index into the heap `lists`)           *)
(***************************************************************************)
EXTENDS Integers, Sequences, FiniteSets, TLC

VARIABLES
    neoFile,    \* the CSV text last handed to load_neos: its data lines
    neoRet,     \* how that call ended: "none" (not called), "returned", "ValueError"
    neos,       \* the list load_neos returned (<<>> when it raised)
    lists,      \* the heap of the list objects made by NearEarthObject.__init__
    cadFile,    \* the JSON document last handed to load_approaches
    cadRet,     \* how that call ended
    cads,       \* the list load_approaches returned (<<>> when it raised)
    nLinked,    \* the number of approaches the linker has attached so far
    out         \* the last accessor call and what it gave

vars == <<neoFile, neoRet, neos, lists, cadFile, cadRet, cads, nLinked, out>>

-----------------------------------------------------------------------------
(* Bounds *)

\* the number of data lines of a source in the loader-only specifications
MaxRows == 2
\* the number of data lines of each source in the load-then-link specification
MaxLinkRows == 2

-----------------------------------------------------------------------------
(* Python values *)

None == <<>>
Some(v) == <<v>>

Fin(n) == <<"fin", n>>
NaN == <<"nan", 0>>
Inf(s) == <<"inf", s>>
ValueError == <<"ValueError", 0>>

Raised(v) == v[1] = "ValueError"
IsFinite(x) == x[1] = "fin"
IsNaN(x) == x[1] = "nan"

\* Python's float() on a str, for the cells of the sources: surrounding blanks
\* are stripped, an exponent is read, "nan", "inf" and an overflowing literal
\* are accepted, anything else (the empty str included) raises ValueError.
float(s) ==
    CASE s \in {"0.3", "3e-1", " 0.30"} -> Fin(30)
      [] s = "5.5" -> Fin(550)
      [] s = "16.84" -> Fin(1684)
      [] s = "0" -> Fin(0)
      [] s = "nan" -> NaN
      [] s \in {"inf", "1e999"} -> Inf(1)
      [] s = "-inf" -> Inf(-1)
      [] OTHER -> ValueError

\* A str is true unless it is empty.
Truthy(s) == s # ""

-----------------------------------------------------------------------------
(* helpers.py (not among the sources): cd_to_datetime and datetime_to_str *)

\* A datetime is <<"datetime", year, month, day, hour, minute>>.
datetime(y, mo, d, h, mi) == <<"datetime", y, mo, d, h, mi>>

\* The format "%Y-%b-%d %H:%M"; any other text raises ValueError.
cd_to_datetime(cd) ==
    CASE cd = "1900-Jan-01 12:00" -> datetime(1900, 1, 1, 12, 0)
      [] cd = "2020-Feb-29 23:59" -> datetime(2020, 2, 29, 23, 59)
      [] OTHER -> ValueError

Pad2(n) == IF n < 10 THEN "0" \o ToString(n) ELSE ToString(n)

datetime_to_str(dt) ==
    ToString(dt[2]) \o "-" \o Pad2(dt[3]) \o "-" \o Pad2(dt[4])
        \o " " \o Pad2(dt[5]) \o ":" \o Pad2(dt[6])

-----------------------------------------------------------------------------
(* models.py: NearEarthObject *)

\* `[]`: a new, empty list object on the heap, and the reference to it.
NewList(heap) == [ref |-> Len(heap) + 1, heap |-> Append(heap, <<>>)]

\* NearEarthObject.__init__ with `approaches=[]` as a default argument: one
\* list, made once, that every object shares.
NearEarthObject__init__shared_list(pdes, pha, name, diameter, heap) ==
    [self |-> [designation |-> pdes,
               name |-> name,
               diameter |-> diameter,
               hazardous |-> pha,
               approaches |-> 1],
     heap |-> IF heap = <<>> THEN <<<<>>>> ELSE heap]

\* NearEarthObject.__init__: the object, and the heap with its own new list.
NearEarthObject__init__(pdes, pha, name, diameter, heap) ==
    LET l == NewList(heap)
    IN  [self |-> [designation |-> pdes,
                   name |-> name,
                   diameter |-> diameter,
                   hazardous |-> pha,
                   approaches |-> l.ref],
         heap |-> l.heap]

\* `if self.name`: None and the empty str are false.
NameTruthy(name) == name # None /\ Truthy(name[1])

\* str(x) of an optional str, as an f-string renders it.
StrOpt(v) == IF v = None THEN "None" ELSE v[1]

\* NearEarthObject.fullname
fullname(self) ==
    IF NameTruthy(self.name)
    THEN self.designation \o " (" \o self.name[1] \o ")"
    ELSE self.designation

\* NearEarthObject.__str__: the pieces the f-string is made of.
neo__str__(self) ==
    <<self.designation, " (", StrOpt(self.name), ") has a diameter of ",
      self.diameter, " km and ", IF self.hazardous THEN "is" ELSE "is not",
      " potentially hazardous.">>

\* NearEarthObject.__repr__: the pieces the f-string is made of.
neo__repr__(self) ==
    <<"NearEarthObject(designation=", self.designation, ", name=", self.name,
      ", diameter=", self.diameter, ", hazardous=", self.hazardous, ")">>

-----------------------------------------------------------------------------
(* models.py: CloseApproach *)

\* des.strip().upper(), on the designations of the sources.
Normalised(des) ==
    CASE des = "2020 ab" -> "2020 AB"
      [] des = " 433" -> "433"
      [] OTHER -> des

\* CloseApproach.__init__ storing the designation trimmed and upper-cased.
CloseApproach__init__normalised(des, cd, dist, v_rel) ==
    LET t == cd_to_datetime(cd)
    IN  IF Raised(t)
        THEN [exc |-> Some("ValueError"), self |-> None]
        ELSE [exc |-> None,
              self |-> [_designation |-> Normalised(des),
                        time |-> t,
                        distance |-> dist,
                        velocity |-> v_rel,
                        neo |-> None]]

\* CloseApproach.__init__: cd_to_datetime may raise; otherwise the object.
CloseApproach__init__(des, cd, dist, v_rel) ==
    LET t == cd_to_datetime(cd)
    IN  IF Raised(t)
        THEN [exc |-> Some("ValueError"), self |-> None]
        ELSE [exc |-> None,
              self |-> [_designation |-> des,
                        time |-> t,
                        distance |-> dist,
                        velocity |-> v_rel,
                        neo |-> None]]

\* CloseApproach.time_str
time_str(self) == datetime_to_str(self.time)

\* CloseApproach.__str__: the pieces the f-string is made of.
cad__str__(self) ==
    <<"At ", time_str(self), ", approaches Earth at a distance of ",
      self.distance, " au and a velocity of ", self.velocity, " km/s.">>

-----------------------------------------------------------------------------
(* extract.py: the two sources and the record normalisation *)

Min(a, b) == IF a < b THEN a ELSE b

\* dict(zip(keys, values)): paired by position, the shorter of the two decides
\* the length, and a key that occurs twice keeps its last value.
zip_dict(keys, values) ==
    LET n == Min(Len(keys), Len(values))
    IN  [f \in {keys[k] : k \in 1..n} |->
            values[CHOOSE k \in 1..n :
                      /\ keys[k] = f
                      /\ \A m \in 1..n : keys[m] = f => m <= k]]

RECURSIVE NonBlank(_)
NonBlank(lines) ==
    IF lines = <<>> THEN <<>>
    ELSE IF Head(lines) = <<>> THEN NonBlank(Tail(lines))
    ELSE <<Head(lines)>> \o NonBlank(Tail(lines))

\* csv.DictReader: the first line names the fields, a blank line is skipped,
\* every other line is a dict from field name to cell.
DictReader(infile) ==
    LET rows == NonBlank(infile.lines)
    IN  [k \in 1..Len(rows) |-> zip_dict(infile.header, rows[k])]

\* The flag compared without regard to case.
pha_flag_anycase(raw) == raw \in {"Y", "y"}

\* neo["pha"] = True if neo["pha"] == 'Y' else False
pha_flag(raw) == raw = "Y"

\* The name kept as it is, the empty str included.
name_or_None_verbatim(raw) == Some(raw)

\* neo["name"] = neo["name"] or None
name_or_None(raw) == IF Truthy(raw) THEN Some(raw) ELSE None

\* The diameter with a cell float() rejects coerced to not-a-number.
diameter_or_nan_lenient(raw) ==
    IF Truthy(raw) /\ ~Raised(float(raw)) THEN float(raw) ELSE NaN

\* neo["diameter"] = float(neo["diameter"]) if neo["diameter"] else float('nan')
diameter_or_nan(raw) == IF Truthy(raw) THEN float(raw) ELSE NaN

\* load_neos keeping one object per designation: a row whose designation was
\* seen already is dropped.
RECURSIVE load_neos_loop_dedup(_, _, _, _)
load_neos_loop_dedup(neos_info, k, acc, heap) ==
    IF k > Len(neos_info)
    THEN [exc |-> None, neos |-> acc, heap |-> heap]
    ELSE LET neo == neos_info[k]
             pha == pha_flag(neo["pha"])
             name == name_or_None(neo["name"])
             diameter == diameter_or_nan(neo["diameter"])
         IN  IF Raised(diameter)
             THEN [exc |-> Some("ValueError"), neos |-> acc, heap |-> heap]
             ELSE IF \E i \in 1..Len(acc) : acc[i].designation = neo["pdes"]
             THEN load_neos_loop_dedup(neos_info, k + 1, acc, heap)
             ELSE LET obj == NearEarthObject__init__(neo["pdes"], pha, name,
                                                     diameter, heap)
                  IN  load_neos_loop_dedup(neos_info, k + 1,
                                           Append(acc, obj.self), obj.heap)

\* load_neos, the loop over the rows from row k on: the exception that ended
\* it (None when it ran to the end), the local list `neos` and the heap.
RECURSIVE load_neos_loop(_, _, _, _)
load_neos_loop(neos_info, k, acc, heap) ==
    IF k > Len(neos_info)
    THEN [exc |-> None, neos |-> acc, heap |-> heap]
    ELSE LET neo == neos_info[k]
             pha == pha_flag(neo["pha"])
             name == name_or_None(neo["name"])
             diameter == diameter_or_nan(neo["diameter"])
         IN  IF Raised(diameter)
             THEN [exc |-> Some("ValueError"), neos |-> acc, heap |-> heap]
             ELSE LET obj == NearEarthObject__init__(neo["pdes"], pha, name,
                                                     diameter, heap)
                  IN  load_neos_loop(neos_info, k + 1,
                                     Append(acc, obj.self), obj.heap)

\* load_approaches with the construction in a try/except that moves on to the
\* next row.
RECURSIVE load_approaches_loop_skip(_, _, _)
load_approaches_loop_skip(cad_info, k, acc) ==
    IF k > Len(cad_info)
    THEN [exc |-> None, cads |-> acc]
    ELSE LET cad == cad_info[k]
             dist == float(cad["dist"])
             v_rel == float(cad["v_rel"])
         IN  IF Raised(dist) \/ Raised(v_rel)
             THEN load_approaches_loop_skip(cad_info, k + 1, acc)
             ELSE LET obj == CloseApproach__init__(cad["des"], cad["cd"],
                                                   dist, v_rel)
                  IN  IF obj.exc # None
                      THEN load_approaches_loop_skip(cad_info, k + 1, acc)
                      ELSE load_approaches_loop_skip(cad_info, k + 1,
                                                     Append(acc, obj.self))

\* load_approaches, the loop over the rows from row k on.
RECURSIVE load_approaches_loop(_, _, _)
load_approaches_loop(cad_info, k, acc) ==
    IF k > Len(cad_info)
    THEN [exc |-> None, cads |-> acc]
    ELSE LET cad == cad_info[k]
             dist == float(cad["dist"])
             v_rel == float(cad["v_rel"])
         IN  IF Raised(dist) \/ Raised(v_rel)
             THEN [exc |-> Some("ValueError"), cads |-> acc]
             ELSE LET obj == CloseApproach__init__(cad["des"], cad["cd"],
                                                   dist, v_rel)
                  IN  IF obj.exc # None
                      THEN [exc |-> obj.exc, cads |-> acc]
                      ELSE load_approaches_loop(cad_info, k + 1,
                                                Append(acc, obj.self))

\* The rows read by fixed column positions, whatever the fields list says.
cad_dicts_fixed_columns(doc) ==
    [k \in 1..Len(doc.data) |->
        zip_dict(<<"des", "cd", "dist", "v_rel">>, doc.data[k])]

\* cad_info = [dict(zip(cad_info["fields"], data)) for data in cad_info["data"]]
cad_dicts(doc) ==
    [k \in 1..Len(doc.data) |-> zip_dict(doc.fields, doc.data[k])]

-----------------------------------------------------------------------------
(* models.py: the flat-record conversions, on the list `neos` a reference *)
(* `neo` of a CloseApproach points into                                   *)

\* formatted_to_csv guarding against a missing NEO: a record with empty NEO
\* columns instead of an error.
formatted_to_csv_lenient(self, neoList) ==
    IF self.neo = None
    THEN [exc |-> None,
          ret |-> [datetime_utc |-> time_str(self),
                   distance_au |-> self.distance,
                   velocity_km_s |-> self.velocity,
                   designation |-> self._designation,
                   name |-> None,
                   diameter_km |-> NaN,
                   potentially_hazardous |-> FALSE]]
    ELSE LET neo == neoList[self.neo[1]]
         IN  [exc |-> None,
              ret |-> [datetime_utc |-> time_str(self),
                       distance_au |-> self.distance,
                       velocity_km_s |-> self.velocity,
                       designation |-> neo.designation,
                       name |-> neo.name,
                       diameter_km |-> neo.diameter,
                       potentially_hazardous |-> neo.hazardous]]

\* self.neo.<attribute>: AttributeError on None.
formatted_to_csv(self, neoList) ==
    IF self.neo = None
    THEN [exc |-> Some("AttributeError"), ret |-> None]
    ELSE LET neo == neoList[self.neo[1]]
         IN  [exc |-> None,
              ret |-> [datetime_utc |-> time_str(self),
                       distance_au |-> self.distance,
                       velocity_km_s |-> self.velocity,
                       designation |-> neo.designation,
                       name |-> neo.name,
                       diameter_km |-> neo.diameter,
                       potentially_hazardous |-> neo.hazardous]]

formatted_to_json(self, neoList) ==
    IF self.neo = None
    THEN [exc |-> Some("AttributeError"), ret |-> None]
    ELSE LET neo == neoList[self.neo[1]]
         IN  [exc |-> None,
              ret |-> [datetime_utc |-> time_str(self),
                       distance_au |-> self.distance,
                       velocity_km_s |-> self.velocity,
                       neo |-> [designation |-> neo.designation,
                                name |-> neo.name,
                                diameter_km |-> neo.diameter,
                                potentially_hazardous |-> neo.hazardous]]]

\* CloseApproach.__repr__: the pieces the f-string is made of.
cad__repr__(self, neoList) ==
    <<"CloseApproach(time=", time_str(self), ", distance=", self.distance,
      ", velocity=", self.velocity, ", neo=",
      IF self.neo = None THEN <<"None">> ELSE neo__repr__(neoList[self.neo[1]]),
      ")">>

-----------------------------------------------------------------------------
(* The sources *)

BoundedSeq(S, n) == UNION {[1..m -> S] : m \in 0..n}

\* The NEO source: a header line and data lines; <<>> is a blank line.
NeoHeader == <<"pdes", "name", "pha", "diameter">>

NeoLines ==
    {<<>>} \cup
    {<<pdes, name, pha, diameter>> :
        pdes \in {"433", "2020 AB"},
        name \in {"", "Eros"},
        pha \in {"Y", "N", "y", ""},
        diameter \in {"", "16.84", "abc"}}

NeoFiles ==
    {[header |-> NeoHeader, lines |-> ls] : ls \in BoundedSeq(NeoLines, MaxRows)}

\* The approach source: a `fields` list and a `data` list of row arrays, in
\* the column order the document chooses.
CadFieldOrders ==
    {<<"des", "cd", "dist", "v_rel">>,
     <<"des", "orbit_id", "cd", "dist", "v_rel">>}

CadRows ==
    [des : {"433", "2020 AB"},
     cd : {"1900-Jan-01 12:00", "not a date"},
     dist : {"0.3", "3e-1", "", "nan"},
     v_rel : {"5.5", "abc", "inf"}]

\* The row array of a row under a column order.
CadArray(fields, row) ==
    [k \in 1..Len(fields) |->
        IF fields[k] = "orbit_id" THEN "7" ELSE row[fields[k]]]

CadDoc(fields, rows) ==
    [fields |-> fields,
     data |-> [k \in 1..Len(rows) |-> CadArray(fields, rows[k])]]

CadFiles ==
    {CadDoc(fields, rows) :
        fields \in CadFieldOrders, rows \in BoundedSeq(CadRows, MaxRows)}

\* The sources of the load-then-link runs: designations that match, that
\* differ in case or in a leading blank only, and one that occurs twice.
LinkNeoLines ==
    {<<"433", "Eros", "N", "">>,
     <<"2020 AB", "", "Y", "16.84">>}

LinkNeoFiles ==
    {[header |-> NeoHeader, lines |-> ls] :
        ls \in BoundedSeq(LinkNeoLines, MaxLinkRows)}

LinkCadRows ==
    {[des |-> "433", cd |-> "1900-Jan-01 12:00", dist |-> "0.3", v_rel |-> "5.5"],
     [des |-> "2020 ab", cd |-> "2020-Feb-29 23:59", dist |-> "3e-1", v_rel |-> "16.84"],
     [des |-> " 433", cd |-> "1900-Jan-01 12:00", dist |-> "5.5", v_rel |-> "0"]}

LinkCadFiles ==
    {CadDoc(<<"des", "cd", "dist", "v_rel">>, rows) :
        rows \in BoundedSeq(LinkCadRows, MaxLinkRows)}

-----------------------------------------------------------------------------
(* The state machine *)

NoCall == [fn |-> "none", self |-> 0, ret |-> None]

Init ==
    /\ neoFile = [header |-> NeoHeader, lines |-> <<>>]
    /\ neoRet = "none"
    /\ neos = <<>>
    /\ lists = <<>>
    /\ cadFile = [fields |-> <<>>, data |-> <<>>]
    /\ cadRet = "none"
    /\ cads = <<>>
    /\ nLinked = 0
    /\ out = NoCall

\* load_neos(neo_csv_path), on a path that holds `infile`. An exception leaves
\* the caller with no list at all.
load_neos(infile) ==
    /\ nLinked = 0
    /\ LET r == load_neos_loop(DictReader(infile), 1, <<>>, <<>>)
       IN  /\ neoFile' = infile
           /\ IF r.exc # None
              THEN neoRet' = "ValueError" /\ neos' = <<>> /\ lists' = <<>>
              ELSE neoRet' = "returned" /\ neos' = r.neos /\ lists' = r.heap
    /\ out' = NoCall
    /\ UNCHANGED <<cadFile, cadRet, cads, nLinked>>

\* load_approaches(cad_json_path), on a path that holds `doc`.
load_approaches(doc) ==
    /\ nLinked = 0
    /\ LET r == load_approaches_loop(cad_dicts(doc), 1, <<>>)
       IN  /\ cadFile' = doc
           /\ IF r.exc # None
              THEN cadRet' = "ValueError" /\ cads' = <<>>
              ELSE cadRet' = "returned" /\ cads' = r.cads
    /\ out' = NoCall
    /\ UNCHANGED <<neoFile, neoRet, neos, lists, nLinked>>

\* The linker (NEODatabase, a collaborator outside the sources), on one
\* approach: it looks the NEO up by designation, sets the approach's `neo` and
\* appends the approach to that NEO's `approaches`.
Link(j) ==
    /\ neoRet = "returned"
    /\ cadRet = "returned"
    /\ cads[j].neo = None
    /\ \E i \in 1..Len(neos) :
          /\ neos[i].designation = cads[j]._designation
          /\ cads' = [cads EXCEPT ![j].neo = Some(i)]
          /\ lists' = [lists EXCEPT ![neos[i].approaches] = Append(@, j)]
    /\ nLinked' = nLinked + 1
    /\ out' = NoCall
    /\ UNCHANGED <<neoFile, neoRet, neos, cadFile, cadRet>>

\* An accessor of NEO i is called.
NeoAccessor(i) ==
    /\ \/ out' = [fn |-> "fullname", self |-> i, ret |-> fullname(neos[i])]
       \/ out' = [fn |-> "neo.__str__", self |-> i, ret |-> neo__str__(neos[i])]
       \/ out' = [fn |-> "neo.__repr__", self |-> i, ret |-> neo__repr__(neos[i])]
    /\ UNCHANGED <<neoFile, neoRet, neos, lists, cadFile, cadRet, cads, nLinked>>

\* An accessor or a conversion of approach j is called.
CadAccessor(j) ==
    /\ \/ out' = [fn |-> "time_str", self |-> j, ret |-> time_str(cads[j])]
       \/ out' = [fn |-> "cad.__str__", self |-> j, ret |-> cad__str__(cads[j])]
       \/ out' = [fn |-> "cad.__repr__", self |-> j,
                  ret |-> cad__repr__(cads[j], neos)]
       \/ out' = [fn |-> "formatted_to_csv", self |-> j,
                  ret |-> formatted_to_csv(cads[j], neos)]
       \/ out' = [fn |-> "formatted_to_json", self |-> j,
                  ret |-> formatted_to_json(cads[j], neos)]
    /\ UNCHANGED <<neoFile, neoRet, neos, lists, cadFile, cadRet, cads, nLinked>>

\* Load, then link, with the accessors callable at any time.
Next ==
    \/ \E infile \in LinkNeoFiles : load_neos(infile)
    \/ \E doc \in LinkCadFiles : load_approaches(doc)
    \/ \E j \in 1..Len(cads) : Link(j)
    \/ \E i \in 1..Len(neos) : NeoAccessor(i)
    \/ \E j \in 1..Len(cads) : CadAccessor(j)

Spec == Init /\ [][Next]_vars

\* One call of load_neos, on any source of NeoFiles.
NextNeos == neoRet = "none" /\ \E infile \in NeoFiles : load_neos(infile)

SpecNeos == Init /\ [][NextNeos]_vars

\* One call of load_approaches, on any document of CadFiles.
NextCads == cadRet = "none" /\ \E doc \in CadFiles : load_approaches(doc)

SpecCads == Init /\ [][NextCads]_vars

-----------------------------------------------------------------------------
(* What the sources hold, read off the text itself *)

\* The data rows of the NEO source: its lines that are not blank.
NeoDataRows == SelectSeq(neoFile.lines, LAMBDA l : l # <<>>)

\* The cell of data row k in the column the header names `field`.
RawNeo(k, field) ==
    NeoDataRows[k][CHOOSE c \in 1..Len(neoFile.header) : neoFile.header[c] = field]

\* The cell of row array k in the column the fields list names `field`.
RawCad(k, field) ==
    cadFile.data[k][CHOOSE c \in 1..Len(cadFile.fields) : cadFile.fields[c] = field]

\* A cell that is no float literal, and one that is no date of the format.
NotANumber(cell) == cell \in {"", "abc", "1,5", "not a date"}
NotADate(cell) == cell \notin {"1900-Jan-01 12:00", "2020-Feb-29 23:59"}

\* A cell that is the literal of a finite float.
FiniteLiteral(cell) == cell \in {"0.3", "3e-1", " 0.30", "5.5", "16.84", "0"}

BadNeoRow(k) == RawNeo(k, "diameter") # "" /\ NotANumber(RawNeo(k, "diameter"))

BadCadRow(k) ==
    \/ NotANumber(RawCad(k, "dist"))
    \/ NotANumber(RawCad(k, "v_rel"))
    \/ NotADate(RawCad(k, "cd"))

\* A row array with a date of the format and finite dist and v_rel.
WellFormedCadRow(k) ==
    /\ FiniteLiteral(RawCad(k, "dist"))
    /\ FiniteLiteral(RawCad(k, "v_rel"))
    /\ ~NotADate(RawCad(k, "cd"))

-----------------------------------------------------------------------------
(* Claims on load_neos, checked under SpecNeos *)

\* C1: for a well-formed NEO source load_neos returns one NearEarthObject per
\* data row, in file order, the i-th with the designation of the i-th data
\* row, and rows with the same designation are not merged.
C1_OnePerRowInOrder ==
    (neoRet # "none" /\ \A k \in 1..Len(NeoDataRows) : ~BadNeoRow(k)) =>
        /\ neoRet = "returned"
        /\ Len(neos) = Len(NeoDataRows)
        /\ \A i \in 1..Len(neos) : neos[i].designation = RawNeo(i, "pdes")

C1_Witness ==
    /\ neoRet = "returned"
    /\ Len(neos) = 2
    /\ RawNeo(1, "pdes") = RawNeo(2, "pdes")
    /\ neos[1].designation = neos[2].designation
    /\ neos[1].name # neos[2].name

\* C2: an empty diameter gives not-a-number (not zero, not None), a numeric
\* one its float, and a non-empty non-numeric one makes the whole call raise,
\* so that it returns nothing, whatever rows came before.
C2_Diameter ==
    /\ (\E k \in 1..Len(NeoDataRows) : BadNeoRow(k)) =>
          neoRet = "ValueError" /\ neos = <<>>
    /\ neoRet = "returned" =>
          \A k \in 1..Len(NeoDataRows) :
             /\ RawNeo(k, "diameter") = "" =>
                   /\ IsNaN(neos[k].diameter)
                   /\ neos[k].diameter # Fin(0)
                   /\ neos[k].diameter # None
             /\ RawNeo(k, "diameter") = "16.84" => neos[k].diameter = Fin(1684)

C2_Witness ==
    /\ neoRet = "ValueError"
    /\ neos = <<>>
    /\ Len(NeoDataRows) = 2
    /\ RawNeo(1, "diameter") = ""
    /\ RawNeo(2, "diameter") = "abc"

\* C7: hazardous is true exactly when the raw pha cell is "Y"; every other
\* cell gives false, and when the call raises it is for a diameter, never for
\* a pha cell.
C7_Hazardous ==
    /\ neoRet = "returned" =>
          \A k \in 1..Len(NeoDataRows) :
             /\ neos[k].hazardous \in BOOLEAN
             /\ neos[k].hazardous <=> RawNeo(k, "pha") = "Y"
    /\ neoRet = "ValueError" => \E k \in 1..Len(NeoDataRows) : BadNeoRow(k)

C7_Witness ==
    /\ neoRet = "returned"
    /\ Len(neos) = 2
    /\ RawNeo(1, "pha") = "Y" /\ neos[1].hazardous
    /\ RawNeo(2, "pha") = "y" /\ ~neos[2].hazardous

\* C8: an empty name cell gives name None (not ""), any other cell is kept as
\* it is; fullname is "designation (name)" with a name and the bare
\* designation without one.
C8_NameAndFullname ==
    neoRet = "returned" =>
        \A k \in 1..Len(NeoDataRows) :
           /\ RawNeo(k, "name") = "" =>
                 /\ neos[k].name = None
                 /\ neos[k].name # Some("")
                 /\ fullname(neos[k]) = RawNeo(k, "pdes")
           /\ RawNeo(k, "name") # "" =>
                 /\ neos[k].name = Some(RawNeo(k, "name"))
                 /\ fullname(neos[k]) =
                       RawNeo(k, "pdes") \o " (" \o RawNeo(k, "name") \o ")"

C8_Witness ==
    /\ neoRet = "returned"
    /\ Len(neos) = 2
    /\ RawNeo(1, "name") = "" /\ fullname(neos[1]) = "2020 AB"
    /\ RawNeo(2, "name") = "Eros" /\ fullname(neos[2]) = "433 (Eros)"

-----------------------------------------------------------------------------
(* Claims on load_approaches, checked under SpecCads *)

\* C3: load_approaches is fail-fast: one row with an empty or non-numeric
\* distance or velocity, or an unparseable date, at any position, makes the
\* call raise and return nothing; no row is skipped.
C3_FailFast ==
    /\ (\E k \in 1..Len(cadFile.data) : BadCadRow(k)) =>
          cadRet = "ValueError" /\ cads = <<>>
    /\ cadRet = "returned" => Len(cads) = Len(cadFile.data)

C3_Witness ==
    /\ cadRet = "ValueError"
    /\ cads = <<>>
    /\ Len(cadFile.data) = 2
    /\ ~BadCadRow(1)
    /\ RawCad(2, "v_rel") = "abc"

\* C4: for a well-formed approach source load_approaches returns one
\* CloseApproach per row array, in order, each made of the cells the fields
\* list names des, cd, dist and v_rel, with distance and velocity the floats
\* parsed from dist and v_rel.
C4_OnePerRowByField ==
    (cadRet # "none" /\ \A k \in 1..Len(cadFile.data) : WellFormedCadRow(k)) =>
        /\ cadRet = "returned"
        /\ Len(cads) = Len(cadFile.data)
        /\ \A k \in 1..Len(cads) :
              /\ cads[k]._designation = RawCad(k, "des")
              /\ cads[k].time = cd_to_datetime(RawCad(k, "cd"))
              /\ cads[k].distance = float(RawCad(k, "dist"))
              /\ cads[k].velocity = float(RawCad(k, "v_rel"))
              /\ IsFinite(cads[k].distance) /\ IsFinite(cads[k].velocity)
              /\ cads[k].neo = None

C4_Witness ==
    /\ cadRet = "returned"
    /\ Len(cads) = 2
    /\ cadFile.fields = <<"des", "orbit_id", "cd", "dist", "v_rel">>
    /\ cads[1]._designation = "2020 AB" /\ cads[2]._designation = "433"
    /\ cads[1].distance = Fin(30) /\ RawCad(1, "dist") = "3e-1"
    /\ cads[2].velocity = Fin(550)

\* C5: every CloseApproach load_approaches returns has a finite distance and a
\* finite velocity.
C5_AlwaysFinite ==
    cadRet = "returned" =>
        \A k \in 1..Len(cads) :
           IsFinite(cads[k].distance) /\ IsFinite(cads[k].velocity)

-----------------------------------------------------------------------------
(* Claims on the two loaders together and on the entities, checked under Spec *)

\* C6: both loaders pass the designation through as it is in the source, so a
\* NEO and an approach have equal designations exactly when their source cells
\* are equal: no case-folding, no trimming.
C6_DesignationsComparable ==
    (neoRet = "returned" /\ cadRet = "returned") =>
        /\ \A i \in 1..Len(neos) : neos[i].designation = RawNeo(i, "pdes")
        /\ \A j \in 1..Len(cads) : cads[j]._designation = RawCad(j, "des")
        /\ \A i \in 1..Len(neos) : \A j \in 1..Len(cads) :
              (neos[i].designation = cads[j]._designation)
                 <=> (RawNeo(i, "pdes") = RawCad(j, "des"))

C6_Witness ==
    /\ neoRet = "returned" /\ cadRet = "returned"
    /\ Len(neos) = 2 /\ Len(cads) = 2
    /\ RawNeo(1, "pdes") = "433" /\ RawCad(1, "des") = "433"
    /\ neos[1].designation = cads[1]._designation
    /\ RawNeo(2, "pdes") = "2020 AB" /\ RawCad(2, "des") = "2020 ab"
    /\ neos[2].designation # cads[2]._designation

\* C9, in every state before the linker has run: every NEO's approaches is
\* empty and is a list of its own, and every approach's neo is None.
C9_Unlinked ==
    nLinked = 0 =>
        /\ \A i \in 1..Len(neos) :
              /\ neos[i].approaches \in 1..Len(lists)
              /\ lists[neos[i].approaches] = <<>>
        /\ \A i \in 1..Len(neos) : \A k \in 1..Len(neos) :
              i # k => neos[i].approaches # neos[k].approaches
        /\ \A j \in 1..Len(cads) : cads[j].neo = None

\* C9, in every step: a step that is not a call of load_approaches and not the
\* linker's leaves every approach as it is, a step that is not a call of
\* load_neos and not the linker's leaves every NEO and every approaches list
\* as they are, and the linker's append to one NEO's approaches changes the
\* approaches of that NEO alone.
C9_Step ==
    /\ UNCHANGED <<cadFile, cadRet, nLinked>> => UNCHANGED cads
    /\ UNCHANGED <<neoFile, neoRet, nLinked>> => UNCHANGED <<neos, lists>>
    /\ nLinked' # nLinked =>
          /\ neos' = neos
          /\ Cardinality({i \in 1..Len(neos) :
                lists'[neos[i].approaches] # lists[neos[i].approaches]}) = 1

\* C9: after any sequence of loader calls and before the linker runs, every
\* NEO has an empty approaches list of its own and every approach has neo
\* None, and no loader and no accessor changes an entity it did not make.
C9_FreshAndUntouched == [](C9_Unlinked) /\ [][C9_Step]_vars

C9_Witness ==
    /\ nLinked = 0
    /\ neoRet = "returned" /\ cadRet = "returned"
    /\ Len(neos) = 2 /\ Len(cads) = 2
    /\ out.fn = "formatted_to_csv"
    /\ out.ret.exc = Some("AttributeError")

CsvKeys ==
    {"datetime_utc", "distance_au", "velocity_km_s", "designation", "name",
     "diameter_km", "potentially_hazardous"}

NeoKeys == {"designation", "name", "diameter_km", "potentially_hazardous"}

\* The NEO part of a flat record is the linked NEO's.
FromNeo(rec, neo) ==
    /\ rec.designation = neo.designation
    /\ rec.name = neo.name
    /\ rec.diameter_km = neo.diameter
    /\ rec.potentially_hazardous = neo.hazardous

\* The approach part of a flat record is the approach's.
FromApproach(rec, ca) ==
    /\ rec.datetime_utc = time_str(ca)
    /\ rec.distance_au = ca.distance
    /\ rec.velocity_km_s = ca.velocity

\* C10: on an approach whose neo is set, formatted_to_csv gives a record of
\* exactly the seven flat keys and formatted_to_json the three approach keys
\* and a nested neo of four keys, with the NEO values of the linked NEO; on an
\* approach whose neo is None both raise and give no record.
C10_FlatRecords ==
    /\ out.fn = "formatted_to_csv" =>
          LET ca == cads[out.self]
          IN  IF ca.neo = None
              THEN out.ret.exc = Some("AttributeError") /\ out.ret.ret = None
              ELSE /\ out.ret.exc = None
                   /\ DOMAIN out.ret.ret = CsvKeys
                   /\ FromApproach(out.ret.ret, ca)
                   /\ FromNeo(out.ret.ret, neos[ca.neo[1]])
    /\ out.fn = "formatted_to_json" =>
          LET ca == cads[out.self]
          IN  IF ca.neo = None
              THEN out.ret.exc = Some("AttributeError") /\ out.ret.ret = None
              ELSE /\ out.ret.exc = None
                   /\ DOMAIN out.ret.ret =
                         {"datetime_utc", "distance_au", "velocity_km_s", "neo"}
                   /\ FromApproach(out.ret.ret, ca)
                   /\ DOMAIN out.ret.ret.neo = NeoKeys
                   /\ FromNeo(out.ret.ret.neo, neos[ca.neo[1]])

C10_Witness ==
    /\ out.fn = "formatted_to_json"
    /\ out.ret.exc = None
    /\ out.ret.ret.neo.name = Some("Eros")
    /\ \E j \in 1..Len(cads) : cads[j].neo = None

====
